---- MODULE Spec2Model ----
(***************************************************************************)
(* billing_notification: a scheduled Lambda that fetches an exchange rate *)
(* and three Cost Explorer results, ranks the per-service costs and       *)
(* prints a report (src/src/main.rs).                                     *)
(*                                                                         *)
(* Numbers.  f64 values are modelled as fixed-point integers: a USD       *)
(* amount is a count of 1/AmountUnit dollars and a rate a count of        *)
(* 1/RateUnit yen per dollar.  Both units are powers of two, so every sum *)
(* and product of the bounded values below is exact in f64 and the        *)
(* integer arithmetic here is the arithmetic the program performs.        *)
(* Amount strings that parse to NaN or an infinity are outside the model. *)
(***************************************************************************)
EXTENDS Integers, Sequences, FiniteSets

VARIABLES
    pc,                 \* position of lambda_handler (or of a call harness)
    now,                \* current UTC date, as chrono::Utc::now().date_naive() reads it
    ticks,              \* number of times the UTC date has advanced during the run
    exchange_rate,
    cost_and_usages,
    current_month_cost_forecast,
    total_cost,
    monthly_cost,
    formatted_total_cost,
    formatted_cost_per_service,
    formatted_current_month_cost_forecast,
    formatted_monthly_cost,
    content,            \* the report printed at line 57, None until then
    result,             \* what lambda_handler returned, None while it runs
    log,                \* the steps taken so far, in order, with their outcome
    request,            \* the time period of the last Cost Explorer request
    output,             \* the response fetch_cost_and_usage holds at line 113
    args,               \* arguments of a direct call of a pure function
    ret                 \* result of that call

vars == <<pc, now, ticks, exchange_rate, cost_and_usages,
          current_month_cost_forecast, total_cost, monthly_cost,
          formatted_total_cost, formatted_cost_per_service,
          formatted_current_month_cost_forecast, formatted_monthly_cost,
          content, result, log, request, output, args, ret>>

----------------------------------------------------------------------------
(* Bounds of the model *)

MaxGroups == 2          \* groups in one get_cost_and_usage response
MaxBuckets == 2         \* time buckets in one get_cost_and_usage response
MaxTicks == 1           \* date changes during one run
MaxAmount == 64         \* format_cost is called directly with |amount| <= MaxAmount
MaxRate == 4            \* ... and 0 <= rate <= MaxRate
MaxCount == 3           \* format_service_costs is called directly with counts up to this
MinusCount == 2         \* ... and down to -MinusCount

AmountUnit == 2 ^ 7     \* amounts are counted in 1/128 USD
RateUnit == 2 ^ 1       \* rates are counted in 1/2 JPY per USD

----------------------------------------------------------------------------
(* Option and Result *)

None == [some |-> FALSE]
Some(v) == [some |-> TRUE, val |-> v]
Ok(v) == [ok |-> TRUE, val |-> v]
Err(e) == [ok |-> FALSE, err |-> e]

Min(a, b) == IF a <= b THEN a ELSE b
Abs(a) == IF a >= 0 THEN a ELSE -a

----------------------------------------------------------------------------
(* Values of the billing API *)

\* An amount string: a decimal numeral with its value, or text that is none.
Numeral(n) == [numeric |-> TRUE, value |-> n]
Garbage == [numeric |-> FALSE]

\* str::parse::<f64>
parse_f64(s) == IF s.numeric THEN Some(s.value) ELSE None

\* HashMap::get
Get(m, k) == IF k \in DOMAIN m THEN Some(m[k]) ELSE None

\* The requests ask for this metric alone (lines 110, 154), so a metrics map
\* has at most this key.
MetricNames == {"UnblendedCost"}

----------------------------------------------------------------------------
(* format_cost, lines 62-67 *)

\* f64::round of p/q (q > 0): nearest integer, halves away from zero
f64_round(p, q) ==
    IF p >= 0 THEN (2 * p + q) \div (2 * q)
    ELSE -((2 * (-p) + q) \div (2 * q))

\* Decimal::round_dp of p/q (q > 0) to an integer number of units:
\* nearest, halves to the even neighbour (banker's rounding)
round_half_even(p, q) ==
    LET f == p \div q
        r == p - f * q
    IN  IF 2 * r < q THEN f
        ELSE IF 2 * r > q THEN f + 1
        ELSE IF f % 2 = 0 THEN f ELSE f + 1

\* f64::round mistaken for round-half-to-even
format_cost_half_even(cost_usd, rate) ==
    [jpy |-> round_half_even(cost_usd * rate, AmountUnit * RateUnit),
     usd |-> round_half_even(cost_usd * 100, AmountUnit)]

\* The string "{rounded_jpy}円(${rounded_usd})" is kept as its two numbers:
\* jpy in whole yen, usd in cents.
format_cost(cost_usd, rate) ==
    LET rounded_jpy == f64_round(cost_usd * rate, AmountUnit * RateUnit)
        rounded_usd == round_half_even(cost_usd * 100, AmountUnit)
    IN  [jpy |-> rounded_jpy, usd |-> rounded_usd]

----------------------------------------------------------------------------
(* Groups of a response *)

Labels == {"S3", "EC2"}

\* Amounts the billing API reports in the model: -0.5, 0.5 and 1.5 USD
Amounts == {-(AmountUnit \div 2), AmountUnit \div 2, 3 * (AmountUnit \div 2)}

AmountStrings == {Garbage} \cup {Numeral(n) : n \in Amounts}

MetricValues == {[amount |-> a] : a \in {None} \cup {Some(s) : s \in AmountStrings}}

MetricMaps == UNION {[ks -> MetricValues] : ks \in SUBSET MetricNames}

\* aws_sdk_costexplorer::types::Group: keys and metrics are both optional
Groups ==
    {[keys |-> k, metrics |-> m] :
        k \in {None, Some(<<>>)} \cup {Some(<<l>>) : l \in Labels},
        m \in {None} \cup {Some(mm) : mm \in MetricMaps}}

SeqsUpTo(S, n) == UNION {[1..k -> S] : k \in 0..n}

----------------------------------------------------------------------------
(* get_unblended_cost, lines 124-126 *)

get_unblended_cost(group) ==
    IF ~group.metrics.some THEN 0
    ELSE LET cost == Get(group.metrics.val, "UnblendedCost")
         IN  IF ~cost.some THEN 0
             ELSE IF ~cost.val.amount.some THEN 0
             ELSE LET parsed == parse_f64(cost.val.amount.val)
                  IN  IF parsed.some THEN parsed.val ELSE 0

----------------------------------------------------------------------------
(* groups.sort_by(...), lines 115-119 *)

\* The comparator: b_cost.partial_cmp(&a_cost), so a goes before b when its
\* cost is the greater.  "Less" means a is placed before b.
compare_groups(a, b) ==
    LET a_cost == get_unblended_cost(a)
        b_cost == get_unblended_cost(b)
    IN  IF b_cost < a_cost THEN "Less"
        ELSE IF b_cost > a_cost THEN "Greater"
        ELSE "Equal"

\* slice::sort_by is a stable sort: g goes after every element that does not
\* compare Greater than it.
RECURSIVE insert_sorted(_, _)
insert_sorted(sorted, g) ==
    IF sorted = <<>> THEN <<g>>
    ELSE IF compare_groups(Head(sorted), g) = "Greater"
         THEN <<g>> \o sorted
         ELSE <<Head(sorted)>> \o insert_sorted(Tail(sorted), g)

RECURSIVE sort_prefix(_, _)
sort_prefix(groups, k) ==
    IF k = 0 THEN <<>>
    ELSE insert_sorted(sort_prefix(groups, k - 1), groups[k])

\* the sort left out
sort_by_cost_unsorted(groups) == groups

sort_by_cost(groups) == sort_prefix(groups, Len(groups))

----------------------------------------------------------------------------
(* total_cost, lines 28-33 *)

\* .filter_map(|metric| metric.amount).filter_map(|amount| amount.parse().ok())
\* over the values of one metrics map, summed
RECURSIVE sum_metric_values(_, _)
sum_metric_values(metrics, names) ==
    IF names = {} THEN 0
    ELSE LET k == CHOOSE x \in names : TRUE
             amount == metrics[k].amount
             parsed == IF amount.some THEN parse_f64(amount.val) ELSE None
         IN  (IF parsed.some THEN parsed.val ELSE 0)
             + sum_metric_values(metrics, names \ {k})

RECURSIVE sum_groups(_, _)
sum_groups(groups, k) ==
    IF k = 0 THEN 0
    ELSE sum_groups(groups, k - 1)
         + (IF groups[k].metrics.some
            THEN sum_metric_values(groups[k].metrics.val,
                                   DOMAIN groups[k].metrics.val)
            ELSE 0)

\* the last group left out of the sum
compute_total_cost_short(groups) ==
    sum_groups(groups, IF Len(groups) > 0 THEN Len(groups) - 1 ELSE 0)

compute_total_cost(groups) == sum_groups(groups, Len(groups))

----------------------------------------------------------------------------
(* format_service_costs and compute_formatted_cost, lines 69-90 *)

compute_formatted_cost(metric, rate) ==
    IF ~metric.amount.some THEN None
    ELSE LET parsed == parse_f64(metric.amount.val)
         IN  IF parsed.some THEN Some(format_cost(parsed.val, rate)) ELSE None

\* `display_count as usize`: an i8 is sign-extended to 64 bits, so a negative
\* count n becomes 2^64 + n.  A usize is kept as its residue with a flag for
\* the wrap: the number meant is low when ~wrapped and 2^64 + low when
\* wrapped (2^64 - 128 at the least).
as_usize(n) == [wrapped |-> n < 0, low |-> n]

\* Iterator::take; a wrapped count exceeds the length of any Vec
Take(s, count) ==
    IF count.wrapped THEN s ELSE SubSeq(s, 1, Min(count.low, Len(s)))

\* the line written for one group, if any (lines 73-81)
service_line(cost, rate) ==
    IF ~cost.keys.some THEN None
    ELSE IF cost.keys.val = <<>> THEN None
    ELSE IF ~cost.metrics.some THEN None
    ELSE LET metric == Get(cost.metrics.val, "UnblendedCost")
             formatted == IF metric.some
                          THEN compute_formatted_cost(metric.val, rate)
                          ELSE None
         IN  IF formatted.some
             THEN Some([key |-> Head(cost.keys.val), cost |-> formatted.val])
             ELSE None

RECURSIVE service_lines(_, _, _)
service_lines(taken, rate, k) ==
    IF k = 0 THEN <<>>
    ELSE LET line == service_line(taken[k], rate)
         IN  service_lines(taken, rate, k - 1)
             \o (IF line.some THEN <<line.val>> ELSE <<>>)

\* The returned string is the fenced block of these lines; writeln! into a
\* String does not fail, so the result is always Ok.
format_service_costs(groups, rate, display_count) ==
    LET taken == Take(groups, as_usize(display_count))
    IN  Ok(service_lines(taken, rate, Len(taken)))

----------------------------------------------------------------------------
(* Dates: chrono::NaiveDate in the proleptic Gregorian calendar *)

Date(y, m, d) == [y |-> y, m |-> m, d |-> d]

IsLeap(y) == (y % 4 = 0 /\ y % 100 # 0) \/ y % 400 = 0

DaysIn(y, m) ==
    IF m = 2 THEN (IF IsLeap(y) THEN 29 ELSE 28)
    ELSE IF m \in {4, 6, 9, 11} THEN 30 ELSE 31

NextDay(t) ==
    IF t.d < DaysIn(t.y, t.m) THEN Date(t.y, t.m, t.d + 1)
    ELSE IF t.m < 12 THEN Date(t.y, t.m + 1, 1)
    ELSE Date(t.y + 1, 1, 1)

PrevDay(t) ==
    IF t.d > 1 THEN Date(t.y, t.m, t.d - 1)
    ELSE IF t.m > 1 THEN Date(t.y, t.m - 1, DaysIn(t.y, t.m - 1))
    ELSE Date(t.y - 1, 12, 31)

\* date - chrono::Duration::days(k)
RECURSIVE minus_days(_, _)
minus_days(t, k) == IF k = 0 THEN t ELSE minus_days(PrevDay(t), k - 1)

RECURSIVE plus_days(_, _)
plus_days(t, k) == IF k = 0 THEN t ELSE plus_days(NextDay(t), k - 1)

\* NaiveDate::checked_add_months(Months::new(1)): the day is clamped to the
\* length of the target month
checked_add_months_1(t) ==
    LET y == IF t.m = 12 THEN t.y + 1 ELSE t.y
        m == IF t.m = 12 THEN 1 ELSE t.m + 1
    IN  Some(Date(y, m, Min(t.d, DaysIn(y, m))))

\* Datelike::with_day(1)
with_day_1(t) == Some(Date(t.y, t.m, 1))

\* .checked_add_months(Months::new(1)).and_then(|d| d.with_day(1))
next_month_1st_of(t) ==
    LET added == checked_add_months_1(t)
    IN  IF added.some THEN with_day_1(added.val) ELSE None

\* The dates a run may start on: a year end, a 31st before a short month,
\* and the day after a leap day.
StartDates == {Date(2024, 12, 31), Date(2025, 1, 31), Date(2024, 3, 1)}

----------------------------------------------------------------------------
(* fetch_exchange_rate, lines 94-98 *)

Rates == {RateUnit + 1}

\* What the rate service answers: the request or the JSON decoding fails, or
\* a JSON document whose usd.inverseRate is a number or is not.
RateResponses == {Err("send")} \cup {Ok(None)} \cup {Ok(Some(r)) : r \in Rates}

fetch_exchange_rate(response) ==
    IF ~response.ok THEN Err(response.err)
    ELSE IF response.val.some THEN Ok(response.val.val)
    ELSE Err("USD rate is not f64")

----------------------------------------------------------------------------
(* fetch_cost_and_usage, lines 101-122 *)

\* The groups of the responses lambda_handler receives: every shape of the
\* metrics, under one label.
ResponseGroups == {g \in Groups : g.keys = Some(<<"S3">>)}

\* ResultByTime: one time bucket, its groups optional
BucketsUpTo(n) ==
    {[groups |-> g] : g \in {None} \cup {Some(gs) : gs \in SeqsUpTo(ResponseGroups, n)}}

BucketSize(b) == IF b.groups.some THEN Len(b.groups.val) ELSE 0

\* the lists of k buckets that hold at most n groups between them
RECURSIVE BucketListsOf(_, _)
BucketListsOf(k, n) ==
    IF k = 0 THEN {<<>>}
    ELSE UNION {{Append(bs, b) : bs \in BucketListsOf(k - 1, n - BucketSize(b))} :
                   b \in BucketsUpTo(n)}

BucketLists == UNION {BucketListsOf(k, MaxGroups) : k \in 0..MaxBuckets}

\* GetCostAndUsageOutput, or the error of a failed request
CostAndUsageResponses ==
    {Err("send")} \cup {Ok([results_by_time |-> None])}
    \cup {Ok([results_by_time |-> Some(bs)]) : bs \in BucketLists}

\* Vec::pop: the last element, if any
pop(v) == IF Len(v) = 0 THEN None ELSE Some(v[Len(v)])

\* slice::first
first(v) == IF Len(v) = 0 THEN None ELSE Some(v[1])

\* line 114: result.results_by_time.and_then(|mut rbt| rbt.pop())
\*                                 .and_then(|first| first.groups)
selected_groups(got) ==
    IF ~got.results_by_time.some THEN None
    ELSE LET bucket == pop(got.results_by_time.val)
         IN  IF bucket.some THEN bucket.val.groups ELSE None

\* an empty group list taken for a missing one
fetch_cost_and_usage_empty_is_error(response) ==
    IF ~response.ok THEN Err(response.err)
    ELSE LET groups == selected_groups(response.val)
         IN  IF groups.some /\ groups.val # <<>>
             THEN Ok(sort_by_cost(groups.val))
             ELSE Err("No groups found in the first result")

fetch_cost_and_usage(response) ==
    IF ~response.ok THEN Err(response.err)
    ELSE LET groups == selected_groups(response.val)
         IN  IF groups.some
             THEN Ok(sort_by_cost(groups.val))
             ELSE Err("No groups found in the first result")

----------------------------------------------------------------------------
(* fetch_current_month_cost_forecast, lines 128-135 *)

ForecastAmounts == {5 * AmountUnit}

\* GetCostForecastOutput: total and its amount are optional
ForecastResponses ==
    {Err("send"), Ok([total |-> None])}
    \cup {Ok([total |-> Some(mv)]) : mv \in
            {[amount |-> a] : a \in {None, Some(Garbage)}
                                \cup {Some(Numeral(n)) : n \in ForecastAmounts}}}

fetch_current_month_cost_forecast(response) ==
    IF ~response.ok THEN Err(response.err)
    ELSE LET total == response.val.total
             amount == IF total.some THEN total.val.amount ELSE None
             parsed == IF amount.some THEN parse_f64(amount.val) ELSE None
         IN  IF parsed.some THEN Ok(parsed.val)
             ELSE Err("Failed to parse the forecasted cost")

----------------------------------------------------------------------------
(* fetch_current_month_cost, lines 137-167 *)

MonthBuckets == {[total |-> t] : t \in {None} \cup {Some(mm) : mm \in MetricMaps}}

MonthResponses ==
    {Err("send"), Ok([results_by_time |-> None])}
    \cup {Ok([results_by_time |-> Some(bs)]) : bs \in SeqsUpTo(MonthBuckets, MaxBuckets)}

fetch_current_month_cost(response) ==
    IF ~response.ok THEN Err(response.err)
    ELSE LET rbt == response.val.results_by_time
             bucket == IF rbt.some THEN first(rbt.val) ELSE None
             total == IF bucket.some THEN bucket.val.total ELSE None
             cost == IF total.some THEN Get(total.val, "UnblendedCost") ELSE None
             amount == IF cost.some THEN cost.val.amount ELSE None
             parsed == IF amount.some THEN parse_f64(amount.val) ELSE None
         IN  IF parsed.some THEN Ok(parsed.val)
             ELSE Err("Failed to extract this month cost amount")

----------------------------------------------------------------------------
(* lambda_handler, lines 21-60 *)

\* the display count lambda_handler passes to format_service_costs
DisplayCount == 5

\* The UTC date read by a later Utc::now(): the date may have advanced since
\* the last reading, by as many days as the run has left.
LaterReadings == {k \in 0..MaxTicks : ticks + k <= MaxTicks}

Logged(op, ok) == Append(log, [op |-> op, ok |-> ok])

Init ==
    /\ pc = "fetch_exchange_rate"
    /\ now \in StartDates
    /\ ticks = 0
    /\ exchange_rate = None
    /\ cost_and_usages = None
    /\ current_month_cost_forecast = None
    /\ total_cost = None
    /\ monthly_cost = None
    /\ formatted_total_cost = None
    /\ formatted_cost_per_service = None
    /\ formatted_current_month_cost_forecast = None
    /\ formatted_monthly_cost = None
    /\ content = None
    /\ result = None
    /\ log = <<>>
    /\ request = None
    /\ output = None
    /\ args = None
    /\ ret = None

\* the `?` after a step was retried instead of returned
question_mark_retry(r, next) ==
    IF r.ok THEN pc' = next /\ UNCHANGED result
    ELSE UNCHANGED <<pc, result>>

\* the `?` after a step left out: the handler carries on
question_mark_ignored(r, next) == pc' = next /\ UNCHANGED result

\* The `?` of lines 24, 25, 26, 36 and 41: an Err is returned from
\* lambda_handler at once, an Ok lets it go on to the next statement.
question_mark(r, next) ==
    IF r.ok THEN pc' = next /\ UNCHANGED result
    ELSE result' = Some(Err(r.err)) /\ pc' = "done"

\* line 24
FetchExchangeRate ==
    /\ pc = "fetch_exchange_rate"
    /\ \E response \in RateResponses :
         LET r == fetch_exchange_rate(response)
         IN  /\ log' = Logged("fetch_exchange_rate", r.ok)
             /\ exchange_rate' = IF r.ok THEN Some(r.val) ELSE exchange_rate
             /\ question_mark(r, "fetch_cost_and_usage")
    /\ UNCHANGED <<now, ticks, cost_and_usages, current_month_cost_forecast,
                   total_cost, monthly_cost, formatted_total_cost,
                   formatted_cost_per_service,
                   formatted_current_month_cost_forecast,
                   formatted_monthly_cost, content, request, output, args, ret>>

\* line 25, up to the await of line 113; the two dates of the request are
\* two readings of the clock (lines 102, 103)
FetchCostAndUsage ==
    /\ pc = "fetch_cost_and_usage"
    /\ \E k1 \in LaterReadings :
       \E k2 \in {k \in LaterReadings : ticks + k1 + k <= MaxTicks} :
       \E response \in CostAndUsageResponses :
         LET reading1 == plus_days(now, k1)
             reading2 == plus_days(reading1, k2)
             day_before_yesterday == minus_days(reading1, 2)
             yesterday == minus_days(reading2, 1)
         IN  /\ now' = reading2
             /\ ticks' = ticks + k1 + k2
             /\ request' = Some([api |-> "get_cost_and_usage",
                                 start |-> day_before_yesterday,
                                 end |-> yesterday])
             /\ output' = IF response.ok THEN Some(response.val) ELSE output
             /\ log' = IF response.ok THEN log
                       ELSE Logged("fetch_cost_and_usage", FALSE)
             /\ question_mark(response, "fetch_cost_and_usage_114")
    /\ UNCHANGED <<exchange_rate, cost_and_usages,
                   current_month_cost_forecast, total_cost,
                   monthly_cost, formatted_total_cost,
                   formatted_cost_per_service,
                   formatted_current_month_cost_forecast,
                   formatted_monthly_cost, content, args, ret>>

\* line 25, from line 114 on: the groups are taken out of the response
\* (which is consumed) and sorted
SelectGroups ==
    /\ pc = "fetch_cost_and_usage_114"
    /\ LET r == fetch_cost_and_usage(Ok(output.val))
       IN  /\ log' = Logged("fetch_cost_and_usage", r.ok)
           /\ cost_and_usages' = IF r.ok THEN Some(r.val) ELSE cost_and_usages
           /\ question_mark(r, "fetch_current_month_cost_forecast")
    /\ output' = None
    /\ UNCHANGED <<now, ticks, exchange_rate, current_month_cost_forecast,
                   total_cost, monthly_cost, formatted_total_cost,
                   formatted_cost_per_service,
                   formatted_current_month_cost_forecast,
                   formatted_monthly_cost, content, request, args, ret>>

\* line 26; lines 129, 130 read the clock twice
FetchCurrentMonthCostForecast ==
    /\ pc = "fetch_current_month_cost_forecast"
    /\ \E k1 \in LaterReadings :
       \E k2 \in {k \in LaterReadings : ticks + k1 + k <= MaxTicks} :
       \E response \in ForecastResponses :
         LET reading1 == plus_days(now, k1)
             reading2 == plus_days(reading1, k2)
             today == reading1
             next_month_1st == next_month_1st_of(reading2)
             r == IF next_month_1st.some
                  THEN fetch_current_month_cost_forecast(response)
                  ELSE Err("Failed to calculate the first day of next month")
         IN  /\ now' = reading2
             /\ ticks' = ticks + k1 + k2
             /\ request' = IF next_month_1st.some
                           THEN Some([api |-> "get_cost_forecast",
                                      start |-> today,
                                      end |-> next_month_1st.val])
                           ELSE request
             /\ log' = Logged("fetch_current_month_cost_forecast", r.ok)
             /\ current_month_cost_forecast' =
                    IF r.ok THEN Some(r.val) ELSE current_month_cost_forecast
             /\ question_mark(r, "total_cost")
    /\ UNCHANGED <<exchange_rate, cost_and_usages, total_cost, monthly_cost,
                   formatted_total_cost, formatted_cost_per_service,
                   formatted_current_month_cost_forecast,
                   formatted_monthly_cost, content, output, args, ret>>

\* lines 28-34
ComputeTotalCost ==
    /\ pc = "total_cost"
    /\ total_cost' = Some(compute_total_cost(cost_and_usages.val))
    /\ log' = Logged("total_cost", TRUE)
    /\ pc' = "fetch_current_month_cost"
    /\ UNCHANGED <<now, ticks, exchange_rate, cost_and_usages,
                   current_month_cost_forecast, monthly_cost,
                   formatted_total_cost, formatted_cost_per_service,
                   formatted_current_month_cost_forecast,
                   formatted_monthly_cost, content, result, request, output,
                   args, ret>>

\* line 36; lines 138, 139 read the clock twice
FetchCurrentMonthCost ==
    /\ pc = "fetch_current_month_cost"
    /\ \E k1 \in LaterReadings :
       \E k2 \in {k \in LaterReadings : ticks + k1 + k <= MaxTicks} :
       \E response \in MonthResponses :
         LET reading1 == plus_days(now, k1)
             reading2 == plus_days(reading1, k2)
             current_month_1th == with_day_1(reading1)
             next_month_1st == next_month_1st_of(reading2)
             r == IF ~current_month_1th.some
                  THEN Err("Failed to calculate the first day of this month")
                  ELSE IF ~next_month_1st.some
                  THEN Err("Failed to calculate the first day of next month")
                  ELSE fetch_current_month_cost(response)
         IN  /\ now' = reading2
             /\ ticks' = ticks + k1 + k2
             /\ request' = IF current_month_1th.some /\ next_month_1st.some
                           THEN Some([api |-> "get_cost_and_usage_monthly",
                                      start |-> current_month_1th.val,
                                      end |-> next_month_1st.val])
                           ELSE request
             /\ log' = Logged("fetch_current_month_cost", r.ok)
             /\ monthly_cost' = IF r.ok THEN Some(r.val) ELSE monthly_cost
             /\ question_mark(r, "format_total_cost")
    /\ UNCHANGED <<exchange_rate, cost_and_usages,
                   current_month_cost_forecast, total_cost,
                   formatted_total_cost, formatted_cost_per_service,
                   formatted_current_month_cost_forecast,
                   formatted_monthly_cost, content, output, args, ret>>

\* lines 38-39
FormatTotalCost ==
    /\ pc = "format_total_cost"
    /\ formatted_total_cost' = Some(format_cost(total_cost.val, exchange_rate.val))
    /\ log' = Logged("format_total_cost", TRUE)
    /\ pc' = "format_service_costs"
    /\ UNCHANGED <<now, ticks, exchange_rate, cost_and_usages,
                   current_month_cost_forecast, total_cost, monthly_cost,
                   formatted_cost_per_service,
                   formatted_current_month_cost_forecast,
                   formatted_monthly_cost, content, result, request, output,
                   args, ret>>

\* lines 41-42
FormatServiceCosts ==
    /\ pc = "format_service_costs"
    /\ LET r == format_service_costs(cost_and_usages.val, exchange_rate.val,
                                     DisplayCount)
       IN  /\ log' = Logged("format_service_costs", r.ok)
           /\ formatted_cost_per_service' =
                  IF r.ok THEN Some(r.val) ELSE formatted_cost_per_service
           /\ question_mark(r, "format_forecast")
    /\ UNCHANGED <<now, ticks, exchange_rate, cost_and_usages,
                   current_month_cost_forecast, total_cost, monthly_cost,
                   formatted_total_cost,
                   formatted_current_month_cost_forecast,
                   formatted_monthly_cost, content, request, output, args, ret>>

\* lines 44-45
FormatForecast ==
    /\ pc = "format_forecast"
    /\ formatted_current_month_cost_forecast' =
           Some(format_cost(current_month_cost_forecast.val, exchange_rate.val))
    /\ log' = Logged("format_forecast", TRUE)
    /\ pc' = "format_monthly_cost"
    /\ UNCHANGED <<now, ticks, exchange_rate, cost_and_usages,
                   current_month_cost_forecast, total_cost, monthly_cost,
                   formatted_total_cost, formatted_cost_per_service,
                   formatted_monthly_cost, content, result, request, output,
                   args, ret>>

\* lines 47-48
FormatMonthlyCost ==
    /\ pc = "format_monthly_cost"
    /\ formatted_monthly_cost' =
           Some(format_cost(monthly_cost.val, exchange_rate.val))
    /\ log' = Logged("format_monthly_cost", TRUE)
    /\ pc' = "content"
    /\ UNCHANGED <<now, ticks, exchange_rate, cost_and_usages,
                   current_month_cost_forecast, total_cost, monthly_cost,
                   formatted_total_cost, formatted_cost_per_service,
                   formatted_current_month_cost_forecast, content, result,
                   request, output, args, ret>>

\* lines 50-59: the report is built and printed, and the handler returns Ok
EmitReport ==
    /\ pc = "content"
    /\ content' = Some([total |-> formatted_total_cost.val,
                        monthly |-> formatted_monthly_cost.val,
                        forecast |-> formatted_current_month_cost_forecast.val,
                        ranking |-> formatted_cost_per_service.val])
    /\ result' = Some(Ok("()"))
    /\ log' = Logged("content", TRUE)
    /\ pc' = "done"
    /\ UNCHANGED <<now, ticks, exchange_rate, cost_and_usages,
                   current_month_cost_forecast, total_cost, monthly_cost,
                   formatted_total_cost, formatted_cost_per_service,
                   formatted_current_month_cost_forecast,
                   formatted_monthly_cost, request, output, args, ret>>

Next ==
    \/ FetchExchangeRate
    \/ FetchCostAndUsage
    \/ SelectGroups
    \/ FetchCurrentMonthCostForecast
    \/ ComputeTotalCost
    \/ FetchCurrentMonthCost
    \/ FormatTotalCost
    \/ FormatServiceCosts
    \/ FormatForecast
    \/ FormatMonthlyCost
    \/ EmitReport

Spec == Init /\ [][Next]_vars

----------------------------------------------------------------------------
(* format_cost called directly, with every amount and rate in range *)

Idle ==
    /\ now = None
    /\ ticks = 0
    /\ exchange_rate = None
    /\ cost_and_usages = None
    /\ current_month_cost_forecast = None
    /\ total_cost = None
    /\ monthly_cost = None
    /\ formatted_total_cost = None
    /\ formatted_cost_per_service = None
    /\ formatted_current_month_cost_forecast = None
    /\ formatted_monthly_cost = None
    /\ content = None
    /\ result = None
    /\ log = <<>>
    /\ request = None
    /\ output = None

handler_vars == <<now, ticks, exchange_rate, cost_and_usages,
                  current_month_cost_forecast, total_cost, monthly_cost,
                  formatted_total_cost, formatted_cost_per_service,
                  formatted_current_month_cost_forecast,
                  formatted_monthly_cost, content, result, log, request,
                  output>>

InitFormat ==
    /\ pc = "call_format_cost"
    /\ args \in [cost_usd : -MaxAmount..MaxAmount, exchange_rate : 0..MaxRate]
    /\ ret = None
    /\ Idle

CallFormatCost ==
    /\ pc = "call_format_cost"
    /\ ret' = Some(format_cost(args.cost_usd, args.exchange_rate))
    /\ pc' = "returned"
    /\ UNCHANGED <<args, handler_vars>>

SpecFormat == InitFormat /\ [][CallFormatCost]_vars

----------------------------------------------------------------------------
(* fetch_cost_and_usage's handling of a response followed by               *)
(* format_service_costs, called directly with every group list and display *)
(* count in range                                                          *)

DisplayCounts == -MinusCount..MaxCount

InitRank ==
    /\ pc = "call_fetch_cost_and_usage"
    /\ args \in [groups : SeqsUpTo(Groups, MaxGroups),
                 exchange_rate : Rates,
                 display_count : DisplayCounts]
    /\ ret = [cost_and_usages |-> <<>>, formatted |-> <<>>]
    /\ Idle

\* the response is one time bucket holding args.groups
CallFetchCostAndUsage ==
    /\ pc = "call_fetch_cost_and_usage"
    /\ LET response == Ok([results_by_time |-> Some(<<[groups |-> Some(args.groups)]>>)])
           r == fetch_cost_and_usage(response)
       IN  /\ r.ok
           /\ ret' = [ret EXCEPT !.cost_and_usages = r.val]
    /\ pc' = "call_format_service_costs"
    /\ UNCHANGED <<args, handler_vars>>

CallFormatServiceCosts ==
    /\ pc = "call_format_service_costs"
    /\ LET r == format_service_costs(ret.cost_and_usages, args.exchange_rate,
                                     args.display_count)
       IN  /\ r.ok
           /\ ret' = [ret EXCEPT !.formatted = r.val]
    /\ pc' = "returned"
    /\ UNCHANGED <<args, handler_vars>>

NextRank == CallFetchCostAndUsage \/ CallFormatServiceCosts

SpecRank == InitRank /\ [][NextRank]_vars

----------------------------------------------------------------------------
(* Properties *)

Fetches == {"fetch_exchange_rate", "fetch_cost_and_usage",
            "fetch_current_month_cost_forecast", "fetch_current_month_cost"}

BillingFetches == Fetches \ {"fetch_exchange_rate"}

FormatSteps == {"format_total_cost", "format_service_costs",
                "format_forecast", "format_monthly_cost"}

Attempts(op) == {i \in DOMAIN log : log[i].op = op}
Succeeded(op) == \E i \in Attempts(op) : log[i].ok
Failed(op) == \E i \in Attempts(op) : ~log[i].ok
AnyFailure == \E i \in DOMAIN log : ~log[i].ok

\* C1: a failure of any fetch or of the ranking formatting ends the run with
\* an Err and without a report; a report is emitted only after all four
\* fetches succeeded, and then the run ends with Ok.
C1_FailureAbortsRun ==
    /\ AnyFailure =>
          /\ pc = "done"
          /\ result.some /\ ~result.val.ok
          /\ ~content.some
    /\ content.some =>
          /\ \A f \in Fetches : Succeeded(f)
          /\ ~AnyFailure
          /\ pc = "done"
          /\ result.some /\ result.val.ok
    /\ pc = "done" => result.some
    /\ (pc = "done" /\ result.val.ok) => content.some

\* a run that failed at the last fetch, after three that succeeded
C1_Witness ==
    /\ pc = "done"
    /\ Failed("fetch_current_month_cost")
    /\ Succeeded("fetch_current_month_cost_forecast")
    /\ result.some /\ ~result.val.ok
    /\ ~content.some

\* every a comes before every b
Before(a, b) == \A i \in Attempts(a), j \in Attempts(b) : i < j

\* b is taken only after a has succeeded
Requires(b, a) ==
    \A j \in Attempts(b) : \E i \in Attempts(a) : i < j /\ log[i].ok

FetchOrder == <<"fetch_exchange_rate", "fetch_cost_and_usage",
                "fetch_current_month_cost_forecast", "fetch_current_month_cost">>

\* C2: each fetch is attempted at most once, in the order rate, service
\* costs, forecast, month-to-date; the total comes after the service-cost
\* fetch and every formatting step after the last fetch; a fetch is issued
\* only after every earlier fetch succeeded; a failed rate fetch means no
\* billing call and no report.
C2_SingleAttemptsInOrder ==
    /\ \A f \in Fetches : Cardinality(Attempts(f)) <= 1
    /\ \A m \in 1..4, n \in 1..4 :
          m < n => /\ Before(FetchOrder[m], FetchOrder[n])
                   /\ Requires(FetchOrder[n], FetchOrder[m])
    /\ Requires("total_cost", "fetch_cost_and_usage")
    /\ \A s \in FormatSteps, f \in Fetches : Requires(s, f)
    /\ Failed("fetch_exchange_rate") =>
          /\ \A f \in BillingFetches : Attempts(f) = {}
          /\ ~request.some
          /\ ~content.some
    /\ request.some => Succeeded("fetch_exchange_rate")

\* a complete run: the four fetches, the total, the four formatting steps
\* and the report
C2_Witness ==
    /\ pc = "done"
    /\ content.some
    /\ Len(log) = 10
    /\ \A f \in Fetches : Cardinality(Attempts(f)) = 1

NoGroupsFound == "No groups found in the first result"

\* the time bucket line 114 takes the groups from
HasBucket(o) == o.results_by_time.some /\ Len(o.results_by_time.val) > 0
SelectedBucket(o) == o.results_by_time.val[Len(o.results_by_time.val)]

GroupsAbsent(o) == ~HasBucket(o) \/ ~SelectedBucket(o).groups.some
GroupsEmpty(o) == HasBucket(o) /\ SelectedBucket(o).groups = Some(<<>>)

AbortedWithNoData ==
    /\ pc = "done"
    /\ result = Some(Err(NoGroupsFound))
    /\ ~cost_and_usages.some
    /\ ~content.some
    /\ \A s \in FormatSteps : Attempts(s) = {}

\* C3, as the claim has it: no time buckets, no group list, or an empty
\* group list all make fetch_cost_and_usage fail with NoData and the run
\* abort.
C3_EmptyGroupListIsNoData ==
    [][(pc = "fetch_cost_and_usage_114"
        /\ (GroupsAbsent(output.val) \/ GroupsEmpty(output.val)))
       => AbortedWithNoData']_vars

\* C3, amended: fetch_cost_and_usage fails with NoData exactly when the
\* response has no time buckets or the selected bucket has no group list,
\* and the run then ends at once, with no formatting step and no report; a
\* group list that is present but empty is returned as an empty list and the
\* run goes on.
C3_AbsentGroupsAreNoData ==
    /\ [][pc = "fetch_cost_and_usage_114" =>
            IF GroupsAbsent(output.val)
            THEN AbortedWithNoData'
            ELSE /\ pc' = "fetch_current_month_cost_forecast"
                 /\ ~result'.some
                 /\ cost_and_usages'.some
                 /\ GroupsEmpty(output.val) => cost_and_usages'.val = <<>>]_vars
    /\ [](Failed("fetch_cost_and_usage") =>
            /\ pc = "done"
            /\ ~content.some
            /\ \A s \in FormatSteps : Attempts(s) = {})

\* a run aborted with NoData
C3_Witness ==
    /\ AbortedWithNoData
    /\ Failed("fetch_cost_and_usage")
    /\ request.some /\ request.val.api = "get_cost_and_usage"

----------------------------------------------------------------------------
(* Properties of the ranking, on direct calls *)

RankReturned == pc = "returned" /\ args.display_count \in DisplayCounts

\* the entries the ranking is made of: the first display_count of the
\* sorted groups
Selected == Take(ret.cost_and_usages, as_usize(args.display_count))

\* how often g occurs in s
Occurrences(s, g) == Cardinality({i \in DOMAIN s : s[i] = g})

NonIncreasing(s) ==
    \A i \in DOMAIN s, j \in DOMAIN s :
        i < j => get_unblended_cost(s[i]) >= get_unblended_cost(s[j])

\* s holds the k costliest of all: it is made of entries of every, and what
\* it leaves out costs no more than anything it holds
TopOf(s, every) ==
    /\ \A g \in Groups : Occurrences(s, g) <= Occurrences(every, g)
    /\ \A i \in DOMAIN s :
         \A g \in Groups :
            (Occurrences(s, g) < Occurrences(every, g))
               => get_unblended_cost(g) <= get_unblended_cost(s[i])

\* C4, as the claim has it: for every display count n the selected entries
\* number min(n, number of entries), in non-increasing order of cost.
C4_SelectedCountAndOrder ==
    RankReturned =>
        /\ Len(Selected) = Min(args.display_count, Len(args.groups))
        /\ NonIncreasing(Selected)
        /\ TopOf(Selected, args.groups)

\* C4, amended: for every display count n >= 0 the selected entries number
\* min(n, number of entries), are in non-increasing order of cost, and are
\* the costliest of the whole list (the sort precedes the truncation).
C4_SelectedCountAndOrderNonNegative ==
    (RankReturned /\ args.display_count >= 0) =>
        /\ Len(Selected) = Min(args.display_count, Len(args.groups))
        /\ NonIncreasing(Selected)
        /\ TopOf(Selected, args.groups)

\* two entries given in increasing order of cost, one of them selected
C4_Witness ==
    /\ RankReturned
    /\ args.display_count = 1
    /\ Len(args.groups) = 2
    /\ get_unblended_cost(args.groups[1]) < get_unblended_cost(args.groups[2])
    /\ Selected = <<args.groups[2]>>

\* C5: a display count n <= 0 selects no entries and gives no service lines.
C5_NonPositiveCountIsEmpty ==
    (RankReturned /\ args.display_count <= 0) =>
        /\ Selected = <<>>
        /\ ret.formatted = <<>>

\* an entry with a label and an UnblendedCost amount that parses
Displayable(g) ==
    /\ g.keys.some /\ Len(g.keys.val) > 0
    /\ g.metrics.some
    /\ "UnblendedCost" \in DOMAIN g.metrics.val
    /\ g.metrics.val["UnblendedCost"].amount.some
    /\ g.metrics.val["UnblendedCost"].amount.val.numeric

LineOf(g, rate) ==
    [key |-> g.keys.val[1],
     cost |-> format_cost(g.metrics.val["UnblendedCost"].amount.val.value, rate)]

\* the first n of s, none when n <= 0
TopN(s, n) == IF n <= 0 THEN <<>> ELSE SubSeq(s, 1, Min(n, Len(s)))

RECURSIVE LinesOf(_, _)
LinesOf(s, rate) ==
    IF s = <<>> THEN <<>>
    ELSE (IF Displayable(Head(s)) THEN <<LineOf(Head(s), rate)>> ELSE <<>>)
         \o LinesOf(Tail(s), rate)

\* C7: the lines of the ranking are the displayable entries among the top
\* display_count ranked entries, one line each, in rank order; the others
\* are skipped and their place is not filled from further down.
C7_LinesAreDisplayableTopEntries ==
    RankReturned =>
        ret.formatted = LinesOf(TopN(ret.cost_and_usages, args.display_count),
                                args.exchange_rate)

----------------------------------------------------------------------------
(* Properties of the total *)

RECURSIVE SumOfCosts(_, _)
SumOfCosts(entries, indices) ==
    IF indices = {} THEN 0
    ELSE LET i == CHOOSE x \in indices : TRUE
         IN  get_unblended_cost(entries[i]) + SumOfCosts(entries, indices \ {i})

Reorderings(n) == {p \in [1..n -> 1..n] : \A i, j \in 1..n : p[i] = p[j] => i = j}

----------------------------------------------------------------------------
(* Properties of format_cost, on direct calls *)

FormatReturned == pc = "returned" /\ ret.some

\* j is an integer nearest to p/q
Nearest(j, p, q) == 2 * Abs(j * q - p) <= q
\* p/q lies halfway between two integers, j one of them
Halfway(j, p, q) == 2 * Abs(j * q - p) = q

JpyNumerator == args.cost_usd * args.exchange_rate
JpyDenominator == AmountUnit * RateUnit

\* C8, as the claim has it: the yen value is a*r rounded to the nearest
\* whole unit, halves to even, and the dollar value is a rounded to 2
\* decimal places.
C8_YenRoundsHalfToEven ==
    FormatReturned =>
        /\ Nearest(ret.val.jpy, JpyNumerator, JpyDenominator)
        /\ Halfway(ret.val.jpy, JpyNumerator, JpyDenominator)
              => ret.val.jpy % 2 = 0
        /\ Nearest(ret.val.usd, args.cost_usd * 100, AmountUnit)

\* C8, amended: the yen value is a*r rounded to the nearest whole unit,
\* halves away from zero, and the dollar value is a rounded to 2 decimal
\* places.
C8_YenRoundsHalfAwayFromZero ==
    FormatReturned =>
        /\ Nearest(ret.val.jpy, JpyNumerator, JpyDenominator)
        /\ Halfway(ret.val.jpy, JpyNumerator, JpyDenominator)
              => Abs(ret.val.jpy) * JpyDenominator > Abs(JpyNumerator)
        /\ Nearest(ret.val.usd, args.cost_usd * 100, AmountUnit)

\* a negative product that is an exact half, rounded to an odd number
C8_Witness ==
    /\ FormatReturned
    /\ JpyNumerator < 0
    /\ Halfway(ret.val.jpy, JpyNumerator, JpyDenominator)
    /\ ret.val.jpy % 2 = 1

----------------------------------------------------------------------------
(* Properties of the requests *)

SameEntries(s, t) == \A g \in ResponseGroups : Occurrences(s, g) = Occurrences(t, g)

\* C9: with one or more time buckets in the response, the entries are built
\* from the first of them.
C9_EntriesFromFirstBucket ==
    [][(pc = "fetch_cost_and_usage_114"
        /\ output.val.results_by_time.some
        /\ Len(output.val.results_by_time.val) > 0)
       => LET first_bucket == output.val.results_by_time.val[1]
          IN  IF first_bucket.groups.some
              THEN /\ cost_and_usages'.some
                   /\ SameEntries(cost_and_usages'.val, first_bucket.groups.val)
              ELSE ~cost_and_usages'.some]_vars

\* C10: both ends of a request's window come from one current date d: the
\* service-cost window is [d-2, d-1) and the forecast window is
\* [d, first day of the month after d's).
C10_WindowFromOneDate ==
    request.some =>
        /\ request.val.api = "get_cost_and_usage"
              => LET d == plus_days(request.val.start, 2)
                 IN  request.val.end = minus_days(d, 1)
        /\ request.val.api = "get_cost_forecast"
              => request.val.end = next_month_1st_of(request.val.start).val

====
